---- MODULE Spec2Model ----
(***************************************************************************)
(* Model of the AutoML client of the SageMaker Python SDK                  *)
(* (src/sagemaker/automl/automl.py): the request builder of AutoML /       *)
(* AutoMLInput / AutoMLJob and the job handle with its cached description  *)
(* and cached best candidate, run against a remote service that holds the  *)
(* jobs.  Further specifications over the same variables: SpecBuilder      *)
(* applies the functions of the request builder to drawn arguments,        *)
(* SpecCancel adds a stop request to a submitted job, SpecSchedule is the  *)
(* monitoring schedule that tests/integ/test_model_monitor.py stops,       *)
(* starts and polls, SpecMonitor adds its executions and the update of its *)
(* configuration, SpecPredictor is the RealTimePredictor of                *)
(* src/sagemaker/predictor.py with the endpoint behind it, and SpecRace    *)
(* runs two threads through best_candidate on one AutoML object.           *)
(*                                                                         *)
(* Python values are tagged records, so that isinstance and truthiness are *)
(* computed as Python computes them.  A string is a sequence of tokens     *)
(* (the prefix "s3://" is one token), so that startswith is what it is in  *)
(* Python and a string differs from the one-element list that holds it.    *)
(***************************************************************************)
EXTENDS Integers, Sequences, FiniteSets, TLC

VARIABLES
    automl,         \* the AutoML object: its attributes after __init__
    remote,         \* the remote service: job name -> job, or NoJob
    pc,             \* position of the calling thread: "idle" or inside a wait
    waitCtx,        \* the blocking session call the thread is inside
    lastOp,         \* what the last completed call on the handle did and returned
                    \* (NoOp while a blocking call is in progress); rep tells that
                    \* a describe or best_candidate repeated the call before it
                    \* with no remote step between
    remoteChanged,  \* has the remote changed since the last completed call
    handles,        \* the job names of the AutoMLJob handles the caller holds
    bin,            \* request builder: the arguments drawn for it
    bout,           \* request builder: what the last builder call produced
    sched,          \* a monitoring schedule, the requests made on it and what
                    \* the caller that polls it has seen
    pred,           \* a RealTimePredictor, the endpoint, configurations and
                    \* models behind it, and what its last call did
    race            \* two threads inside best_candidate on one AutoML object

vars == <<automl, remote, pc, waitCtx, lastOp, remoteChanged, handles, bin, bout, sched, pred, race>>

(***************************************************************************)
(* Bounds.                                                                 *)
(***************************************************************************)
MaxStrLen == 2      \* longest location string, in tokens
MaxListLen == 2     \* longest list of locations
MaxRetryCount == 3  \* polls of a schedule before the caller gives up (100 in the tests)
MaxRequests == 3    \* stop and start requests made on a schedule

(***************************************************************************)
(* Python values.                                                          *)
(***************************************************************************)
PyNone == [tag |-> "None"]
PyStr(s) == [tag |-> "str", val |-> s]
PyList(l) == [tag |-> "list", val |-> l]
PyDict(keys) == [tag |-> "dict", keys |-> keys]
PyOther == [tag |-> "int"]
PyInt(n) == [tag |-> "int", val |-> n]

\* bool(v) of Python for the values above
Truthy(v) ==
    CASE v.tag = "None" -> FALSE
      [] v.tag = "str"  -> Len(v.val) > 0
      [] v.tag = "list" -> Len(v.val) > 0
      [] v.tag = "dict" -> v.keys /= {}
      [] v.tag = "int" /\ "val" \in DOMAIN v -> v.val /= 0
      [] OTHER          -> TRUE

Tokens == {"s3://", "a"}
SeqsUpTo(S, n) == UNION {[1..k -> S] : k \in 0..n}
Strings == {PyStr(s) : s \in SeqsUpTo(Tokens, MaxStrLen)}
Lists == {PyList(l) : l \in SeqsUpTo(Strings, MaxListLen)}

\* s.startswith("s3://")
StartsWithS3(s) == Len(s.val) > 0 /\ s.val[1] = "s3://"

Ok(value) == [outcome |-> "ok", value |-> value]
Raise(err) == [outcome |-> err]

(***************************************************************************)
(* Request builder.                                                        *)
(***************************************************************************)
\* AutoML._check_problem_type_and_job_objective: TRUE iff it raises ValueError
_check_problem_type_and_job_objective(problem_type, job_objective) ==
    /\ ~(Truthy(problem_type) /\ Truthy(job_objective))
    /\ (Truthy(problem_type) \/ Truthy(job_objective))

\* one entry of the input data config
InputEntry(uri, target_attribute_name, compression) ==
    LET base == [DataSource |-> [S3DataSource |->
                     [S3DataType |-> "S3Prefix", S3Uri |-> uri]],
                 TargetAttributeName |-> target_attribute_name]
    IN IF compression /= PyNone
       THEN [k \in DOMAIN base \cup {"CompressionType"} |->
                IF k = "CompressionType" THEN compression ELSE base[k]]
       ELSE base

AutoMLInput(inputs, target_attribute_name, compression) ==
    [tag |-> "AutoMLInput", inputs |-> inputs,
     target_attribute_name |-> target_attribute_name, compression |-> compression]

\* AutoMLInput.to_request_dict: the list it returns, and self.inputs afterwards
to_request_dict(self) ==
    LET inputs == IF self.inputs.tag = "str" THEN PyList(<<self.inputs>>)
                  ELSE self.inputs
    IN IF inputs.tag /= "list" THEN Raise("TypeError")
       ELSE [outcome |-> "ok",
             value |-> [i \in 1..Len(inputs.val) |->
                 InputEntry(inputs.val[i], self.target_attribute_name, self.compression)],
             inputs |-> inputs]

\* _Job._format_string_uri_input(...).config
_format_string_uri_input(uri_input, validate_uri, compression, target_attribute_name) ==
    IF validate_uri /\ ~StartsWithS3(uri_input) THEN Raise("ValueError")
    ELSE Ok(InputEntry(uri_input, target_attribute_name, compression))

\* the first error raised while formatting the entries of a list, if any
FirstError(results) ==
    LET bad == {i \in 1..Len(results) : results[i].outcome /= "ok"}
    IN IF bad = {} THEN "ok"
       ELSE results[CHOOSE i \in bad : \A j \in bad : i <= j].outcome

\* the final loop of _format_inputs_to_input_config over the channels
CheckChannels(channels) ==
    IF \E i \in 1..Len(channels) : channels[i].TargetAttributeName = PyNone
    THEN Raise("ValueError")
    ELSE Ok(channels)

\* AutoMLJob._format_inputs_to_input_config
_format_inputs_to_input_config_nocompression(inputs, validate_uri, compression, target_attribute_name) ==
    CASE inputs.tag = "None" -> Ok(PyNone)
      [] inputs.tag = "AutoMLInput" ->
            LET r == to_request_dict(inputs)
            IN IF r.outcome /= "ok" THEN Raise(r.outcome) ELSE Raise("TypeError")
      [] inputs.tag = "str" ->
            LET r == _format_string_uri_input(inputs, validate_uri, PyNone,
                                              target_attribute_name)
            IN IF r.outcome /= "ok" THEN Raise(r.outcome)
               ELSE CheckChannels(<<r.value>>)
      [] inputs.tag = "list" ->
            LET rs == [i \in 1..Len(inputs.val) |->
                          _format_string_uri_input(inputs.val[i], validate_uri,
                                                   compression, target_attribute_name)]
            IN IF FirstError(rs) /= "ok" THEN Raise(FirstError(rs))
               ELSE CheckChannels([i \in 1..Len(rs) |-> rs[i].value])
      [] OTHER -> Raise("ValueError")

_format_inputs_to_input_config(inputs, validate_uri, compression, target_attribute_name) ==
    CASE inputs.tag = "None" -> Ok(PyNone)
      [] inputs.tag = "AutoMLInput" ->
            \* channels holds one element, the list to_request_dict returned;
            \* indexing that list with a string key raises TypeError
            LET r == to_request_dict(inputs)
            IN IF r.outcome /= "ok" THEN Raise(r.outcome) ELSE Raise("TypeError")
      [] inputs.tag = "str" ->
            LET r == _format_string_uri_input(inputs, validate_uri, compression,
                                              target_attribute_name)
            IN IF r.outcome /= "ok" THEN Raise(r.outcome)
               ELSE CheckChannels(<<r.value>>)
      [] inputs.tag = "list" ->
            LET rs == [i \in 1..Len(inputs.val) |->
                          _format_string_uri_input(inputs.val[i], validate_uri,
                                                   compression, target_attribute_name)]
            IN IF FirstError(rs) /= "ok" THEN Raise(FirstError(rs))
               ELSE CheckChannels([i \in 1..Len(rs) |-> rs[i].value])
      [] OTHER -> Raise("ValueError")

\* AutoMLJob._prepare_auto_ml_stop_condition: the dictionary as a function
\* from its keys to their values
_prepare_auto_ml_stop_condition_truthy(max_candidates, max_runtime_per_training_job_in_seconds, total_job_runtime_in_seconds) ==
    LET c0 == [k \in {"MaxCandidates"} |-> max_candidates]
        c1 == IF Truthy(max_runtime_per_training_job_in_seconds)
              THEN ("MaxRuntimePerTrainingJobInSeconds" :>
                        max_runtime_per_training_job_in_seconds) @@ c0
              ELSE c0
    IN IF Truthy(total_job_runtime_in_seconds)
       THEN ("MaxAutoMLJobRuntimeInSeconds" :> total_job_runtime_in_seconds) @@ c1
       ELSE c1

_prepare_auto_ml_stop_condition(max_candidates, max_runtime_per_training_job_in_seconds, total_job_runtime_in_seconds) ==
    LET c0 == [k \in {"MaxCandidates"} |-> max_candidates]
        c1 == IF max_runtime_per_training_job_in_seconds /= PyNone
              THEN ("MaxRuntimePerTrainingJobInSeconds" :>
                        max_runtime_per_training_job_in_seconds) @@ c0
              ELSE c0
    IN IF total_job_runtime_in_seconds /= PyNone
       THEN ("MaxAutoMLJobRuntimeInSeconds" :> total_job_runtime_in_seconds) @@ c1
       ELSE c1

\* AutoMLJob._load_config: the SecurityConfig of the auto_ml_job_config
SecurityConfig(encrypt_inter_container_traffic, volume_kms_key, vpc_config) ==
    LET c0 == [k \in {"EnableInterContainerTrafficEncryption"} |->
                  encrypt_inter_container_traffic]
        c1 == IF Truthy(volume_kms_key)
              THEN ("VolumeKmsKeyId" :> volume_kms_key) @@ c0 ELSE c0
    IN IF Truthy(vpc_config) THEN ("VpcConfig" :> vpc_config) @@ c1 ELSE c1

\* AutoML._prepare_for_auto_ml_job: the base name handed to name_from_base
DefaultBaseName == PyStr(<<"sagemaker-auto-ml">>)
base_name(base_job_name) ==
    IF Truthy(base_job_name) THEN base_job_name ELSE DefaultBaseName

\* AutoML.list_candidates: the keyword arguments it passes to the session
Filters ==
    {"status_equals", "candidate_name", "candidate_arn", "sort_order", "sort_by",
     "max_results"}
list_candidates_args(job_name, filters) ==
    [k \in {"job_name"} \cup {f \in Filters : Truthy(filters[f])} |->
        IF k = "job_name" THEN PyStr(<<job_name>>) ELSE filters[k]]

(***************************************************************************)
(* The remote service and the session in front of it.                      *)
(***************************************************************************)
JobNames == {"A", "B"}
NoName == "<None>"          \* job_name=None

NonTerminal == {"InProgress", "Stopping"}
Terminal == {"Completed", "CompletedWithViolations", "Failed", "Stopped"}
ResultsAvailable == {"Completed", "CompletedWithViolations"}

NoJob == [AutoMLJobStatus |-> "<none>", hasBest |-> FALSE]

\* the BestCandidate of a job: a non-empty dictionary that names its job
Cand(j) == [tag |-> "dict", keys |-> {"CandidateName"}, CandidateName |-> j]

Call(fn, arg) == [fn |-> fn, arg |-> arg]

\* Session.describe_auto_ml_job(job_name): the DescribeAutoMLJob response
SessionDescribe(rem, job_name) ==
    IF job_name \notin JobNames \/ rem[job_name] = NoJob THEN Raise("ClientError")
    ELSE IF rem[job_name].hasBest
         THEN Ok([AutoMLJobName |-> job_name,
                  AutoMLJobStatus |-> rem[job_name].AutoMLJobStatus,
                  BestCandidate |-> Cand(job_name)])
         ELSE Ok([AutoMLJobName |-> job_name,
                  AutoMLJobStatus |-> rem[job_name].AutoMLJobStatus])

\* Session.auto_ml(job_name=...): CreateAutoMLJob
SessionCreate(rem, job_name) ==
    IF job_name \notin JobNames \/ rem[job_name] /= NoJob THEN Raise("ClientError")
    ELSE Ok([rem EXCEPT ![job_name] = [AutoMLJobStatus |-> "InProgress", hasBest |-> FALSE]])

\* Session.stop_auto_ml_job(job_name): StopAutoMLJob asks the job to stop
SessionStop(rem, job_name) ==
    IF job_name \notin JobNames \/ rem[job_name].AutoMLJobStatus /= "InProgress"
    THEN Raise("ClientError")
    ELSE Ok([rem EXCEPT ![job_name].AutoMLJobStatus = "Stopping"])

\* Session.list_candidates(job_name=..., ...): the ListCandidatesForAutoMLJob
\* response, which holds what the job has published
SessionListCandidates(rem, args) ==
    LET job_name == args["job_name"].val[1]
    IN IF job_name \notin JobNames \/ rem[job_name] = NoJob THEN Raise("ClientError")
       ELSE Ok([Candidates |->
                   IF rem[job_name].hasBest THEN PyList(<<Cand(job_name)>>)
                   ELSE PyList(<<>>)])

\* one poll of Session.wait_for_auto_ml_job / logs_for_auto_ml_job(wait=...):
\* TRUE iff the session call returns after this poll
SessionPollReturns(rem, call) ==
    \/ ~call.wait
    \/ rem[call.job].AutoMLJobStatus \in Terminal

(***************************************************************************)
(* The AutoML object and the AutoMLJob handle.                             *)
(***************************************************************************)
\* the result of a call on the handle
Result(self, rem, calls, outcome, ret) ==
    [self |-> self, rem |-> rem, calls |-> calls, outcome |-> outcome, ret |-> ret]

ResolveName(self, job_name) ==
    IF job_name = NoName THEN self.current_job_name ELSE job_name

\* AutoML.describe_auto_ml_job
describe_auto_ml_job_cached(self, job_name, rem) ==
    LET jn == ResolveName(self, job_name)
        r == SessionDescribe(rem, jn)
    IN IF self._auto_ml_job_desc /= PyNone
       THEN Result(self, rem, <<>>, "ok", self._auto_ml_job_desc)
       ELSE IF r.outcome /= "ok"
            THEN Result(self, rem, <<Call("describe_auto_ml_job", jn)>>, r.outcome, PyNone)
            ELSE Result([self EXCEPT !._auto_ml_job_desc = r.value], rem,
                        <<Call("describe_auto_ml_job", jn)>>, "ok", r.value)

describe_auto_ml_job_previous(self, job_name, rem) ==
    LET jn == ResolveName(self, job_name)
        r == SessionDescribe(rem, jn)
    IN IF r.outcome /= "ok"
       THEN Result(self, rem, <<Call("describe_auto_ml_job", jn)>>, r.outcome, PyNone)
       ELSE Result([self EXCEPT !._auto_ml_job_desc = r.value], rem,
                   <<Call("describe_auto_ml_job", jn)>>, "ok", self._auto_ml_job_desc)

describe_auto_ml_job(self, job_name, rem) ==
    LET jn == ResolveName(self, job_name)
        r == SessionDescribe(rem, jn)
    IN IF r.outcome /= "ok"
       THEN Result(self, rem, <<Call("describe_auto_ml_job", jn)>>, r.outcome, PyNone)
       ELSE Result([self EXCEPT !._auto_ml_job_desc = r.value], rem,
                   <<Call("describe_auto_ml_job", jn)>>, "ok", r.value)

\* AutoML.best_candidate
best_candidate_refetch(self, job_name, rem) ==
    LET jn == ResolveName(self, job_name)
        r == SessionDescribe(rem, jn)
    IN IF Truthy(self._best_candidate)
       THEN Result(self, rem, <<>>, "ok", self._best_candidate)
       ELSE IF r.outcome /= "ok"
            THEN Result(self, rem, <<Call("describe_auto_ml_job", jn)>>, r.outcome, PyNone)
            ELSE IF "BestCandidate" \notin DOMAIN r.value
                 THEN Result([self EXCEPT !._auto_ml_job_desc = r.value], rem,
                             <<Call("describe_auto_ml_job", jn)>>, "KeyError", PyNone)
                 ELSE Result([self EXCEPT !._auto_ml_job_desc = r.value,
                                          !._best_candidate = r.value.BestCandidate],
                             rem, <<Call("describe_auto_ml_job", jn)>>, "ok",
                             r.value.BestCandidate)

best_candidate(self, job_name, rem) ==
    IF Truthy(self._best_candidate)
    THEN Result(self, rem, <<>>, "ok", self._best_candidate)
    ELSE
      LET jn == ResolveName(self, job_name)
          fetch == \/ self._auto_ml_job_desc = PyNone
                   \/ self._auto_ml_job_desc.AutoMLJobName /= jn
          r == SessionDescribe(rem, jn)
          calls == IF fetch THEN <<Call("describe_auto_ml_job", jn)>> ELSE <<>>
          desc == IF fetch THEN r.value ELSE self._auto_ml_job_desc
      IN IF fetch /\ r.outcome /= "ok"
         THEN Result(self, rem, calls, r.outcome, PyNone)
         ELSE IF "BestCandidate" \notin DOMAIN desc
              THEN Result([self EXCEPT !._auto_ml_job_desc = desc], rem, calls,
                          "KeyError", PyNone)
              ELSE Result([self EXCEPT !._auto_ml_job_desc = desc,
                                       !._best_candidate = desc.BestCandidate],
                          rem, calls, "ok", desc.BestCandidate)

\* AutoML.list_candidates
NoFilters == [f \in Filters |-> PyNone]

list_candidates_renaming(self, job_name, filters, rem) ==
    LET args == list_candidates_args(ResolveName(self, job_name), filters)
        r == SessionListCandidates(rem, args)
        calls == <<Call("list_candidates", ResolveName(self, job_name))>>
    IN IF r.outcome /= "ok" THEN Result(self, rem, calls, r.outcome, PyNone)
       ELSE Result([self EXCEPT !.current_job_name = ResolveName(self, job_name)],
                   rem, calls, "ok", r.value.Candidates)

list_candidates(self, job_name, filters, rem) ==
    LET args == list_candidates_args(ResolveName(self, job_name), filters)
        r == SessionListCandidates(rem, args)
        calls == <<Call("list_candidates", ResolveName(self, job_name))>>
    IN IF r.outcome /= "ok" THEN Result(self, rem, calls, r.outcome, PyNone)
       ELSE Result(self, rem, calls, "ok", r.value.Candidates)

\* AutoMLJob.describe
describe_raising_on_failure(job_name, rem) ==
    IF job_name \in JobNames /\ rem[job_name].AutoMLJobStatus = "Failed"
    THEN Raise("UnexpectedStatusException")
    ELSE SessionDescribe(rem, job_name)

describe(job_name, rem) ==
    SessionDescribe(rem, job_name)

\* AutoMLJob.wait: the blocking session call it makes
wait_returning_at_once(job_name, logs) ==
    IF logs THEN [fn |-> "logs_for_auto_ml_job", job |-> job_name, wait |-> FALSE]
    ELSE [fn |-> "wait_for_auto_ml_job", job |-> job_name, wait |-> TRUE]

wait_without_polling(job_name, logs) ==
    IF logs THEN [fn |-> "logs_for_auto_ml_job", job |-> job_name, wait |-> TRUE]
    ELSE [fn |-> "wait_for_auto_ml_job", job |-> job_name, wait |-> FALSE]

wait_always_polling(job_name, logs) ==
    [fn |-> "wait_for_auto_ml_job", job |-> job_name, wait |-> TRUE]

wait(job_name, logs) ==
    IF logs THEN [fn |-> "logs_for_auto_ml_job", job |-> job_name, wait |-> TRUE]
    ELSE [fn |-> "wait_for_auto_ml_job", job |-> job_name, wait |-> TRUE]

\* AutoML.__init__
__init__(target_attribute_name, output_path, compression_type, problem_type, job_objective) ==
    IF _check_problem_type_and_job_objective(problem_type, job_objective)
    THEN Raise("ValueError")
    ELSE Ok([target_attribute_name |-> target_attribute_name,
             output_path |-> output_path,
             compression_type |-> compression_type,
             problem_type |-> problem_type,
             job_objective |-> job_objective,
             current_job_name |-> NoName,
             _auto_ml_job_desc |-> PyNone,
             _best_candidate |-> PyNone,
             latest_auto_ml_job |-> NoName])

\* Session.upload_data returns the S3 location of the uploaded file
UploadedUri == PyStr(<<"s3://", "a">>)
\* "s3://{}/".format(Session.default_bucket())
DefaultOutputPath == PyStr(<<"s3://", "b">>)

\* AutoML._prepare_for_auto_ml_job; generated is what name_from_base returns
_prepare_for_auto_ml_job(self, job_name, generated) ==
    LET named == [self EXCEPT !.current_job_name =
                      IF job_name /= NoName THEN job_name ELSE generated]
    IN IF self.output_path = PyNone
       THEN [self |-> [named EXCEPT !.output_path = DefaultOutputPath],
             calls |-> <<Call("default_bucket", "")>>]
       ELSE [self |-> named, calls |-> <<>>]

\* AutoMLJob._load_config: the input config part, which is the part that can raise
_load_config(inputs, auto_ml) ==
    IF inputs.tag = "AutoMLInput" THEN to_request_dict(inputs)
    ELSE _format_inputs_to_input_config(inputs, TRUE, auto_ml.compression_type,
                                        auto_ml.target_attribute_name)

\* AutoMLJob.start_new
start_new_reusing_handle(auto_ml, inputs, rem) ==
    LET config == _load_config(inputs, auto_ml)
        created == SessionCreate(rem, auto_ml.current_job_name)
    IN IF config.outcome /= "ok"
       THEN Result(auto_ml, rem, <<>>, config.outcome, NoName)
       ELSE IF created.outcome /= "ok"
            THEN Result(auto_ml, rem, <<Call("auto_ml", auto_ml.current_job_name)>>,
                        created.outcome, NoName)
            ELSE Result(auto_ml, created.value,
                        <<Call("auto_ml", auto_ml.current_job_name)>>, "ok",
                        IF auto_ml.latest_auto_ml_job /= NoName
                        THEN auto_ml.latest_auto_ml_job
                        ELSE auto_ml.current_job_name)

start_new(auto_ml, inputs, rem) ==
    LET config == _load_config(inputs, auto_ml)
        created == SessionCreate(rem, auto_ml.current_job_name)
    IN IF config.outcome /= "ok"
       THEN Result(auto_ml, rem, <<>>, config.outcome, NoName)
       ELSE IF created.outcome /= "ok"
            THEN Result(auto_ml, rem, <<Call("auto_ml", auto_ml.current_job_name)>>,
                        created.outcome, NoName)
            ELSE Result(auto_ml, created.value,
                        <<Call("auto_ml", auto_ml.current_job_name)>>, "ok",
                        auto_ml.current_job_name)

\* AutoML.fit up to the point where it starts to wait
fit_checking_late(self, inputs, wait_, logs, job_name, generated, rem) ==
    LET upload == inputs.tag = "str" /\ ~StartsWithS3(inputs)
        inputs1 == IF upload THEN UploadedUri ELSE inputs
        calls1 == IF upload THEN <<Call("upload_data", "")>> ELSE <<>>
        prep == _prepare_for_auto_ml_job(self, job_name, generated)
        started == start_new(prep.self, inputs1, rem)
        calls == calls1 \o prep.calls \o started.calls
    IN IF logs /\ ~wait_
       THEN Result(prep.self, rem, calls1 \o prep.calls, "ValueError", PyNone)
       ELSE IF started.outcome /= "ok"
            THEN Result(prep.self, rem, calls, started.outcome, PyNone)
            ELSE Result([prep.self EXCEPT !.latest_auto_ml_job = started.ret],
                        started.rem, calls, "ok", PyNone)

fit_creating_twice(self, inputs, wait_, logs, job_name, generated, rem) ==
    IF logs /\ ~wait_
    THEN Result(self, rem, <<>>, "ValueError", PyNone)
    ELSE
      LET upload == inputs.tag = "str" /\ ~StartsWithS3(inputs)
          inputs1 == IF upload THEN UploadedUri ELSE inputs
          calls1 == IF upload THEN <<Call("upload_data", "")>> ELSE <<>>
          prep == _prepare_for_auto_ml_job(self, job_name, generated)
          started == start_new(prep.self, inputs1, rem)
          calls == calls1 \o prep.calls \o started.calls \o started.calls
      IN IF started.outcome /= "ok"
         THEN Result(prep.self, rem, calls, started.outcome, PyNone)
         ELSE Result([prep.self EXCEPT !.latest_auto_ml_job = started.ret],
                     started.rem, calls, "ok", PyNone)

fit(self, inputs, wait_, logs, job_name, generated, rem) ==
    IF logs /\ ~wait_
    THEN Result(self, rem, <<>>, "ValueError", PyNone)
    ELSE
      LET upload == inputs.tag = "str" /\ ~StartsWithS3(inputs)
          inputs1 == IF upload THEN UploadedUri ELSE inputs
          calls1 == IF upload THEN <<Call("upload_data", "")>> ELSE <<>>
          prep == _prepare_for_auto_ml_job(self, job_name, generated)
          started == start_new(prep.self, inputs1, rem)
          calls == calls1 \o prep.calls \o started.calls
      IN IF started.outcome /= "ok"
         THEN Result(prep.self, rem, calls, started.outcome, PyNone)
         ELSE Result([prep.self EXCEPT !.latest_auto_ml_job = started.ret],
                     started.rem, calls, "ok", PyNone)

(***************************************************************************)
(* The state machine of one AutoML object and the remote service.          *)
(***************************************************************************)
NoStatus == "<none>"
NoWait == [call |-> [fn |-> "<none>", job |-> NoName, wait |-> FALSE],
           op |-> "<none>", req |-> NoName, calls |-> <<>>, logs |-> FALSE]
NoOp == [op |-> "<none>", req |-> NoName, job |-> NoName, calls |-> <<>>,
         outcome |-> "ok", ret |-> PyNone, status |-> NoStatus,
         rep |-> FALSE]

BIdle == [inputs |-> PyNone, target_attribute_name |-> PyNone, compression |-> PyNone,
          problem_type |-> PyNone, job_objective |-> PyNone,
          max_candidates |-> PyInt(500),
          max_runtime_per_training_job_in_seconds |-> PyNone,
          total_job_runtime_in_seconds |-> PyNone,
          form |-> "plain", wait |-> TRUE, logs |-> TRUE, output_path |-> PyNone,
          current_job_name |-> NoName,
          base_job_name |-> PyNone, volume_kms_key |-> PyNone, vpc_config |-> PyNone,
          status_equals |-> PyNone, candidate_name |-> PyNone, candidate_arn |-> PyNone,
          sort_order |-> PyNone, sort_by |-> PyNone, max_results |-> PyNone]
BNone == [op |-> "<none>", res |-> Ok(PyNone)]
\* the parts of a schedule's configuration that describe_schedule reports
RequiredParts == {"EndpointInput", "InstanceCount", "InstanceType", "VolumeSizeInGB", "ImageUri", "RoleArn", "MonitoringOutputs", "Environment"}
OptionalParts == {"VolumeKmsKeyId", "KmsKeyId", "BaselineConfig", "NetworkConfig", "RecordPreprocessorSourceUri", "PostAnalyticsProcessorSourceUri"}
ConfigParts == RequiredParts \cup OptionalParts
Absent == PyNone
NoConfig == <<>>

NoSchedule == [status |-> "<none>", goal |-> "<none>", reqs |-> <<>>, tpc |-> "idle",
               retry |-> 0, waited |-> "<none>", seen |-> "<none>",
               exec |-> "<none>", first |-> "<none>", stops |-> 0,
               config |-> NoConfig, next |-> NoConfig, before |-> NoConfig,
               settled |-> TRUE, args |-> NoConfig, desc |-> NoConfig]

NoPredictor == [op |-> "<none>"]
NoRace == [op |-> "<none>"]

TargetNames == {PyStr(<<"a">>)}

InitObject ==
    /\ automl \in {__init__(t, PyNone, PyNone, PyNone, PyNone).value : t \in TargetNames}
    /\ remote = [j \in JobNames |-> NoJob]
    /\ pc = "idle"
    /\ waitCtx = NoWait
    /\ lastOp = NoOp
    /\ remoteChanged = FALSE
    /\ handles = {}

Init ==
    /\ InitObject
    /\ bin = BIdle
    /\ bout = BNone
    /\ sched = NoSchedule
    /\ pred = NoPredictor
    /\ race = NoRace

\* a call on the handle has completed
Completed(op, req, job, calls, outcome, ret, status) ==
    /\ lastOp' = [op |-> op, req |-> req, job |-> job, calls |-> calls,
                  outcome |-> outcome, ret |-> ret, status |-> status,
                  rep |-> (/\ op \in {"describe", "describe_auto_ml_job", "best_candidate"}
                           /\ lastOp.op = op
                           /\ lastOp.req = req
                           /\ ~remoteChanged)]
    /\ remoteChanged' = FALSE

\* the inputs a caller passes to fit: an S3 location, a local path, a list with
\* a local path (rejected by the validation of the URI), and an AutoMLInput
FitInputs ==
    {PyStr(<<"s3://", "a">>), PyStr(<<"a">>),
     PyList(<<PyStr(<<"s3://", "a">>), PyStr(<<"a">>)>>),
     AutoMLInput(PyStr(<<"s3://", "a">>), PyStr(<<"a">>), PyNone)}

Fit(inputs, wait_, logs, job_name, generated) ==
    /\ pc = "idle"
    /\ \E r \in {fit(automl, inputs, wait_, logs, job_name, generated, remote)} :
          /\ automl' = r.self
          /\ remote' = r.rem
          /\ handles' = IF r.outcome = "ok" THEN handles \cup {r.self.latest_auto_ml_job}
                        ELSE handles
          /\ IF r.outcome = "ok" /\ wait_
             THEN /\ pc' = "waiting"
                  /\ waitCtx' = [call |-> wait(r.self.latest_auto_ml_job, logs),
                                 op |-> "fit", req |-> job_name, calls |-> r.calls,
                                 logs |-> logs]
                  /\ lastOp' = NoOp
                  /\ remoteChanged' = FALSE
             ELSE /\ Completed("fit", job_name, r.self.current_job_name, r.calls,
                               r.outcome, PyNone, NoStatus)
                  /\ UNCHANGED <<pc, waitCtx>>
    /\ UNCHANGED <<bin, bout, sched, pred, race>>

JobWait(h, logs) ==
    /\ pc = "idle"
    /\ h \in handles
    /\ pc' = "waiting"
    /\ waitCtx' = [call |-> wait(h, logs), op |-> "wait", req |-> h, calls |-> <<>>,
                   logs |-> logs]
    /\ lastOp' = NoOp
    /\ remoteChanged' = FALSE
    /\ UNCHANGED <<automl, remote, handles, bin, bout, sched, pred, race>>

\* one poll of the session call the thread is blocked in
SessionPoll ==
    /\ pc = "waiting"
    /\ IF SessionPollReturns(remote, waitCtx.call)
       THEN /\ pc' = "idle"
            /\ waitCtx' = NoWait
            /\ Completed(waitCtx.op, waitCtx.req, waitCtx.call.job,
                         waitCtx.calls \o <<Call(waitCtx.call.fn, waitCtx.call.job)>>,
                         "ok", PyNone, remote[waitCtx.call.job].AutoMLJobStatus)
            /\ UNCHANGED <<automl, remote, handles, bin, bout, sched, pred, race>>
       ELSE UNCHANGED vars

JobDescribe(h) ==
    /\ pc = "idle"
    /\ h \in handles
    /\ \E r \in {describe(h, remote)} :
          Completed("describe", h, h, <<Call("describe_auto_ml_job", h)>>, r.outcome,
                    IF r.outcome = "ok" THEN r.value ELSE PyNone, NoStatus)
    /\ UNCHANGED <<automl, remote, pc, waitCtx, handles, bin, bout, sched, pred, race>>

DescribeAutoMLJob(job_name) ==
    /\ pc = "idle"
    /\ \E r \in {describe_auto_ml_job(automl, job_name, remote)} :
          /\ automl' = r.self
          /\ Completed("describe_auto_ml_job", job_name, ResolveName(automl, job_name),
                       r.calls, r.outcome, r.ret, NoStatus)
    /\ UNCHANGED <<remote, pc, waitCtx, handles, bin, bout, sched, pred, race>>

BestCandidate(job_name) ==
    /\ pc = "idle"
    /\ \E r \in {best_candidate(automl, job_name, remote)} :
          /\ automl' = r.self
          /\ Completed("best_candidate", job_name, ResolveName(automl, job_name),
                       r.calls, r.outcome, r.ret, NoStatus)
    /\ UNCHANGED <<remote, pc, waitCtx, handles, bin, bout, sched, pred, race>>

ListCandidates(job_name) ==
    /\ pc = "idle"
    /\ \E r \in {list_candidates(automl, job_name, NoFilters, remote)} :
          /\ automl' = r.self
          /\ Completed("list_candidates", job_name, ResolveName(automl, job_name),
                       r.calls, r.outcome, r.ret, NoStatus)
    /\ UNCHANGED <<remote, pc, waitCtx, handles, bin, bout, sched, pred, race>>

\* the remote service runs the jobs; the description a describe returned is a
\* snapshot of the remote, and lastOp keeps it only until the remote moves
Moved(op) ==
    IF op.op \in {"describe", "describe_auto_ml_job", "list_candidates"}
    THEN [op EXCEPT !.ret = PyNone]
    ELSE op

RemotePublish(j) ==
    /\ remote[j].AutoMLJobStatus = "InProgress"
    /\ ~remote[j].hasBest
    /\ remote' = [remote EXCEPT ![j].hasBest = TRUE]
    /\ remoteChanged' = (pc = "idle")
    /\ lastOp' = Moved(lastOp)
    /\ UNCHANGED <<automl, pc, waitCtx, handles, bin, bout, sched, pred, race>>

\* a stop request for the job reaches the service, from wherever it is issued
\* (the calling thread may be inside a wait)
StopJob(j) ==
    /\ \E r \in {SessionStop(remote, j)} :
          /\ r.outcome = "ok"
          /\ remote' = r.value
    /\ remoteChanged' = (pc = "idle")
    /\ lastOp' = Moved(lastOp)
    /\ UNCHANGED <<automl, pc, waitCtx, handles, bin, bout, sched, pred, race>>

RemoteFinish(j, status) ==
    /\ remote[j].AutoMLJobStatus \in NonTerminal
    /\ remote' = [remote EXCEPT ![j] =
           [AutoMLJobStatus |-> status,
            hasBest |-> remote[j].hasBest \/ status \in ResultsAvailable]]
    /\ remoteChanged' = (pc = "idle")
    /\ lastOp' = Moved(lastOp)
    /\ UNCHANGED <<automl, pc, waitCtx, handles, bin, bout, sched, pred, race>>

Next ==
    \/ \E inputs \in FitInputs, w \in BOOLEAN, logs \in BOOLEAN, job_name \in JobNames :
            Fit(inputs, w, logs, job_name, job_name)
    \/ \E inputs \in FitInputs, w \in BOOLEAN, logs \in BOOLEAN,
          generated \in {j \in JobNames : remote[j] = NoJob} :
            Fit(inputs, w, logs, NoName, generated)
    \/ \E h \in JobNames, logs \in BOOLEAN : JobWait(h, logs)
    \/ SessionPoll
    \/ \E h \in JobNames : JobDescribe(h)
    \/ \E job_name \in JobNames \cup {NoName} : DescribeAutoMLJob(job_name)
    \/ \E job_name \in JobNames \cup {NoName} : BestCandidate(job_name)
    \/ \E job_name \in JobNames \cup {NoName} : ListCandidates(job_name)
    \/ \E j \in JobNames : RemotePublish(j)
    \/ \E j \in JobNames, status \in Terminal : RemoteFinish(j, status)

Spec == Init /\ [][Next]_vars

(***************************************************************************)
(* A submitted job and a stop request: the caller holds the handle of job  *)
(* "A", submitted by fit(wait=False, logs=False), and observes or waits     *)
(* while the service runs the job and may be asked to stop it.             *)
(***************************************************************************)
SubmittedJob ==
    fit(__init__(PyStr(<<"a">>), PyNone, PyNone, PyNone, PyNone).value,
        PyStr(<<"s3://", "a">>), FALSE, FALSE, "A", "A", [j \in JobNames |-> NoJob])

InitCancel ==
    /\ automl = SubmittedJob.self
    /\ remote = SubmittedJob.rem
    /\ pc = "idle"
    /\ waitCtx = NoWait
    /\ lastOp = NoOp
    /\ remoteChanged = FALSE
    /\ handles = {"A"}
    /\ bin = BIdle
    /\ bout = BNone
    /\ sched = NoSchedule
    /\ pred = NoPredictor
    /\ race = NoRace

NextCancel ==
    \/ \E h \in JobNames, logs \in BOOLEAN : JobWait(h, logs)
    \/ SessionPoll
    \/ \E h \in JobNames : JobDescribe(h)
    \/ \E job_name \in JobNames \cup {NoName} : DescribeAutoMLJob(job_name)
    \/ \E job_name \in JobNames \cup {NoName} : BestCandidate(job_name)
    \/ \E job_name \in JobNames \cup {NoName} : ListCandidates(job_name)
    \/ \E j \in JobNames : RemotePublish(j)
    \/ \E j \in JobNames : StopJob(j)
    \/ \E j \in JobNames, status \in Terminal : RemoteFinish(j, status)

SpecCancel == InitCancel /\ [][NextCancel]_vars

(***************************************************************************)
(* The request builder on its own: its functions applied to drawn          *)
(* arguments.                                                              *)
(***************************************************************************)
ProblemTypes == {PyNone, PyStr(<<>>), PyStr(<<"a">>)}
JobObjectives == {PyNone, PyDict({}), PyDict({"MetricName"})}
BuilderTargets == {PyNone, PyStr(<<>>), PyStr(<<"a">>)}
Compressions == {PyNone, PyStr(<<"b">>)}
BuilderInputs == {PyNone, PyOther} \cup Strings \cup Lists

\* what a caller passes to fit: an object that is no location, an S3 location,
\* a local path, a list of S3 locations, a list with a local path; wrapped
\* into an AutoMLInput or not
FitRequestInputs ==
    {PyOther, PyStr(<<"s3://", "a">>), PyStr(<<"a">>),
     PyList(<<PyStr(<<"s3://", "a">>)>>),
     PyList(<<PyStr(<<"s3://", "a">>), PyStr(<<"a">>)>>)}
InputForms == {"plain", "AutoMLInput"}
OutputPaths == {PyNone, PyStr(<<>>), PyStr(<<"s3://", "a">>)}

\* an optional parameter: absent, an explicit falsy value, a real value
OptionalStrings == {PyNone, PyStr(<<>>), PyStr(<<"a">>)}
VpcConfigs == {PyNone, PyDict({}), PyDict({"Subnets"})}
MaxResults == {PyNone, PyInt(0), PyInt(1)}

MaxCandidates == {PyNone, PyInt(1), PyInt(500)}
Runtimes == {PyNone, PyInt(0), PyInt(600), PyInt(3600)}

\* the arguments of one builder call: either the inputs, target and compression
\* vary (the input config), or the problem type and the objective (the pair
\* check), or the limits of the stopping condition
BuilderArguments ==
    {[BIdle EXCEPT !.inputs = i, !.target_attribute_name = t, !.compression = c] :
        i \in BuilderInputs, t \in BuilderTargets, c \in Compressions}
    \cup
    {[BIdle EXCEPT !.target_attribute_name = PyStr(<<"a">>), !.problem_type = p,
                   !.job_objective = o] :
        p \in ProblemTypes, o \in JobObjectives}
    \cup
    {[BIdle EXCEPT !.max_candidates = m,
                   !.max_runtime_per_training_job_in_seconds = r,
                   !.total_job_runtime_in_seconds = t] :
        m \in MaxCandidates, r \in Runtimes, t \in Runtimes}
    \cup
    {[BIdle EXCEPT !.inputs = i, !.target_attribute_name = t, !.form = f, !.wait = w,
                   !.logs = l, !.output_path = o, !.current_job_name = n] :
        i \in FitRequestInputs, t \in BuilderTargets, f \in InputForms,
        w \in BOOLEAN, l \in BOOLEAN, o \in OutputPaths, n \in {NoName, "B"}}
    \cup
    {[BIdle EXCEPT !.base_job_name = b, !.volume_kms_key = k, !.vpc_config = v] :
        b \in OptionalStrings, k \in OptionalStrings, v \in VpcConfigs}
    \cup
    {[BIdle EXCEPT !.status_equals = f[1], !.candidate_name = f[2],
                   !.candidate_arn = f[3], !.sort_order = f[4], !.sort_by = f[5],
                   !.max_results = m] :
        f \in [1..5 -> OptionalStrings], m \in MaxResults}

InitBuilder ==
    /\ automl = __init__(PyStr(<<"a">>), PyNone, PyNone, PyNone, PyNone).value
    /\ remote = [j \in JobNames |-> NoJob]
    /\ pc = "idle"
    /\ waitCtx = NoWait
    /\ lastOp = NoOp
    /\ remoteChanged = FALSE
    /\ handles = {}
    /\ bin \in BuilderArguments
    /\ bout = BNone
    /\ sched = NoSchedule
    /\ pred = NoPredictor
    /\ race = NoRace

UnchangedObject ==
    UNCHANGED <<automl, remote, pc, waitCtx, lastOp, remoteChanged, handles, sched, pred, race>>

\* AutoML(role, target_attribute_name, problem_type=..., job_objective=...)
Construct ==
    /\ bout' = [op |-> "__init__",
                res |-> __init__(bin.target_attribute_name, PyNone, bin.compression,
                                 bin.problem_type, bin.job_objective)]
    /\ UNCHANGED bin
    /\ UnchangedObject

\* AutoMLJob._format_inputs_to_input_config(inputs, True, compression, target)
FormatInputs ==
    /\ bout' = [op |-> "_format_inputs_to_input_config",
                res |-> _format_inputs_to_input_config(bin.inputs, TRUE, bin.compression,
                                                       bin.target_attribute_name)]
    /\ UNCHANGED bin
    /\ UnchangedObject

\* AutoMLInput(inputs, target, compression).to_request_dict()
ToRequestDict ==
    /\ bout' = [op |-> "to_request_dict",
                res |-> to_request_dict(AutoMLInput(bin.inputs, bin.target_attribute_name,
                                                    bin.compression))]
    /\ UNCHANGED bin
    /\ UnchangedObject

\* AutoMLJob._prepare_auto_ml_stop_condition(max_candidates, ...)
PrepareStopCondition ==
    /\ bout' = [op |-> "_prepare_auto_ml_stop_condition",
                res |-> Ok(_prepare_auto_ml_stop_condition(
                               bin.max_candidates,
                               bin.max_runtime_per_training_job_in_seconds,
                               bin.total_job_runtime_in_seconds))]
    /\ UNCHANGED bin
    /\ UnchangedObject

\* the AutoML object a fit request is made on, and the inputs it passes
FitObject ==
    [automl EXCEPT !.target_attribute_name = bin.target_attribute_name,
                   !.compression_type = bin.compression,
                   !.output_path = bin.output_path,
                   !.current_job_name = bin.current_job_name]
FitInput ==
    IF bin.form = "AutoMLInput"
    THEN AutoMLInput(bin.inputs, bin.target_attribute_name, bin.compression)
    ELSE bin.inputs

\* AutoML(...).fit(inputs, wait, logs, job_name="A") up to the wait
FitRequest ==
    /\ bout' = [op |-> "fit",
                res |-> fit(FitObject, FitInput, bin.wait, bin.logs, "A", "A", remote)]
    /\ UNCHANGED bin
    /\ UnchangedObject

\* AutoMLJob._load_config: the SecurityConfig it builds from the object
LoadSecurityConfig ==
    /\ bout' = [op |-> "SecurityConfig",
                res |-> Ok(SecurityConfig(FALSE, bin.volume_kms_key, bin.vpc_config))]
    /\ UNCHANGED bin
    /\ UnchangedObject

\* AutoML._prepare_for_auto_ml_job(job_name=None): the base of the generated name
PrepareBaseName ==
    /\ bout' = [op |-> "base_name", res |-> Ok(base_name(bin.base_job_name))]
    /\ UNCHANGED bin
    /\ UnchangedObject

\* AutoML.list_candidates(job_name="A", status_equals=..., ..., max_results=...)
ListCandidatesArgs ==
    /\ bout' = [op |-> "list_candidates", res |-> Ok(list_candidates_args("A", bin))]
    /\ UNCHANGED bin
    /\ UnchangedObject

NextBuilder ==
    \/ Construct
    \/ FormatInputs
    \/ ToRequestDict
    \/ PrepareStopCondition
    \/ FitRequest
    \/ LoadSecurityConfig
    \/ PrepareBaseName
    \/ ListCandidatesArgs

SpecBuilder == InitBuilder /\ [][NextBuilder]_vars

(***************************************************************************)
(* A monitoring schedule: the caller of the integration tests creates it,  *)
(* stops and starts it, and polls it until its changes have applied; the   *)
(* service applies a requested change some time after the request.         *)
(***************************************************************************)
\* ModelMonitor.create_monitoring_schedule / stop_monitoring_schedule /
\* start_monitoring_schedule: the request is accepted and the call returns; the
\* schedule is Pending until the service has applied the change
create_monitoring_schedule ==
    [NoSchedule EXCEPT !.status = "Pending", !.goal = "Scheduled", !.reqs = <<"create">>]

stop_monitoring_schedule(sch) ==
    [sch EXCEPT !.status = "Pending", !.goal = "Stopped", !.reqs = Append(@, "stop"),
                !.waited = "<none>", !.seen = "<none>", !.desc = NoConfig]

start_monitoring_schedule(sch) ==
    [sch EXCEPT !.status = "Pending", !.goal = "Scheduled", !.reqs = Append(@, "start"),
                !.waited = "<none>", !.seen = "<none>", !.desc = NoConfig]

\* ModelMonitor.describe_schedule
describe_schedule(sch) ==
    IF sch.exec = "<none>"
    THEN [MonitoringScheduleStatus |-> sch.status, MonitoringScheduleConfig |-> sch.config]
    ELSE [MonitoringScheduleStatus |-> sch.status, MonitoringScheduleConfig |-> sch.config,
          LastMonitoringExecutionSummary |-> [MonitoringExecutionStatus |-> sch.exec]]

\* one iteration of the loop of _wait_for_schedule_changes_to_apply, the
\* retry-th one counted from 0: what the loop does after it
_wait_for_schedule_changes_to_apply_once(schedule_desc, retry) ==
    "break"

_wait_for_schedule_changes_to_apply(schedule_desc, retry) ==
    IF schedule_desc.MonitoringScheduleStatus /= "Pending" THEN "break"
    ELSE IF retry + 1 < MaxRetryCount THEN "retry"
    ELSE "raise"

UnchangedAutoML ==
    UNCHANGED <<automl, remote, pc, waitCtx, lastOp, remoteChanged, handles, bin, bout, pred, race>>

InitSchedule ==
    /\ InitObject
    /\ bin = BIdle
    /\ bout = BNone
    /\ sched = create_monitoring_schedule
    /\ pred = NoPredictor
    /\ race = NoRace

StopMonitoringSchedule ==
    /\ sched.tpc = "idle"
    /\ Len(sched.reqs) <= MaxRequests
    /\ sched' = stop_monitoring_schedule(sched)
    /\ UnchangedAutoML

StartMonitoringSchedule ==
    /\ sched.tpc = "idle"
    /\ Len(sched.reqs) <= MaxRequests
    /\ sched' = start_monitoring_schedule(sched)
    /\ UnchangedAutoML

\* _wait_for_schedule_changes_to_apply(monitor) is entered
WaitForScheduleChanges ==
    /\ sched.tpc = "idle"
    /\ sched' = [sched EXCEPT !.tpc = "polling", !.retry = 0, !.waited = "<none>",
                              !.seen = "<none>"]
    /\ UnchangedAutoML

\* one iteration of its loop
SchedulePoll ==
    /\ sched.tpc = "polling"
    /\ \E next \in {_wait_for_schedule_changes_to_apply(describe_schedule(sched),
                                                         sched.retry)} :
          sched' = CASE next = "break" ->
                          [sched EXCEPT !.tpc = "idle", !.retry = 0, !.waited = "ok"]
                     [] next = "retry" -> [sched EXCEPT !.retry = @ + 1]
                     [] OTHER ->
                          [sched EXCEPT !.tpc = "idle", !.retry = 0, !.waited = "raised"]
    /\ UnchangedAutoML

\* monitor.describe_schedule() by the caller
DescribeSchedule ==
    /\ sched.tpc = "idle"
    /\ sched' = [sched EXCEPT !.seen = describe_schedule(sched).MonitoringScheduleStatus,
                              !.desc = describe_schedule(sched).MonitoringScheduleConfig]
    /\ UnchangedAutoML

\* the service applies the requested change
RemotePropagate ==
    /\ sched.status = "Pending"
    /\ sched' = [sched EXCEPT !.status = sched.goal, !.config = sched.next]
    /\ UnchangedAutoML

NextSchedule ==
    \/ StopMonitoringSchedule
    \/ StartMonitoringSchedule
    \/ WaitForScheduleChanges
    \/ SchedulePoll
    \/ DescribeSchedule
    \/ RemotePropagate

SpecSchedule == InitSchedule /\ [][NextSchedule]_vars

(***************************************************************************)
(* The schedule's executions and its configuration: the service starts     *)
(* executions of a Scheduled schedule and takes each one through its own   *)
(* statuses; the caller updates the schedule and waits for the first       *)
(* execution to finish.                                                    *)
(***************************************************************************)
TerminalExecution == {"Completed", "CompletedWithViolations", "Failed", "Stopped"}

\* the arguments of ModelMonitor.update_monitoring_schedule, None by default
NoArguments == [k \in ConfigParts |-> PyNone]
UpdateArguments == {NoArguments, [NoArguments EXCEPT !["InstanceCount"] = PyInt(2), !["NetworkConfig"] = PyInt(2)]}

\* the configuration create_monitoring_schedule is called with: the endpoint
\* input and the schedule expression, everything else by default
CreatedConfig == [k \in ConfigParts |-> IF k \in RequiredParts THEN PyInt(1) ELSE Absent]

\* ModelMonitor.update_monitoring_schedule: update_schedule(name, partial_spec)
\* with the parts the caller gave; the schedule is Pending until the service
\* has applied the change
update_monitoring_schedule_from_defaults(sch, args) ==
    [sch EXCEPT !.status = "Pending", !.reqs = Append(@, "update"),
                !.next = [k \in ConfigParts |-> IF args[k] = PyNone THEN Absent ELSE args[k]],
                !.before = sch.config, !.settled = sch.status /= "Pending",
                !.args = args, !.waited = "<none>", !.seen = "<none>", !.desc = NoConfig]

update_monitoring_schedule(sch, args) ==
    [sch EXCEPT !.status = "Pending", !.reqs = Append(@, "update"),
                !.next = [k \in ConfigParts |-> IF args[k] = PyNone THEN sch.next[k] ELSE args[k]],
                !.before = sch.config, !.settled = sch.status /= "Pending",
                !.args = args, !.waited = "<none>", !.seen = "<none>", !.desc = NoConfig]

\* one iteration of the loop of
\* _predict_while_waiting_for_first_monitoring_job_to_complete, the retry-th one
\* counted from 0: whether it calls stop_monitoring_schedule, and what the loop
\* does after it
_predict_while_waiting_by_schedule_status(schedule_desc, retry) ==
    [stop |-> schedule_desc.MonitoringScheduleStatus = "Scheduled",
     next |-> IF schedule_desc.MonitoringScheduleStatus = "Stopped" THEN "break"
              ELSE IF retry + 1 < MaxRetryCount THEN "retry"
              ELSE "raise"]

_predict_while_waiting_for_first_monitoring_job_to_complete(schedule_desc, retry) ==
    LET has_summary == "LastMonitoringExecutionSummary" \in DOMAIN schedule_desc
        last_execution_status ==
            IF has_summary
            THEN schedule_desc.LastMonitoringExecutionSummary.MonitoringExecutionStatus
            ELSE "<none>"
    IN  [stop |-> /\ has_summary
                  /\ schedule_desc.MonitoringScheduleStatus \notin {"Pending", "Stopped"},
         next |-> IF last_execution_status \in TerminalExecution THEN "break"
                  ELSE IF retry + 1 < MaxRetryCount THEN "retry"
                  ELSE "raise"]

InitMonitor ==
    /\ InitObject
    /\ bin = BIdle
    /\ bout = BNone
    /\ sched = [create_monitoring_schedule EXCEPT !.config = CreatedConfig,
                                                  !.next = CreatedConfig]
    /\ pred = NoPredictor
    /\ race = NoRace

UpdateMonitoringSchedule ==
    /\ sched.tpc = "idle"
    /\ Len(sched.reqs) <= MaxRequests
    /\ \E args \in UpdateArguments : sched' = update_monitoring_schedule(sched, args)
    /\ UnchangedAutoML

\* _predict_while_waiting_for_first_monitoring_job_to_complete is entered
WaitForFirstExecution ==
    /\ sched.tpc = "idle"
    /\ Len(sched.reqs) <= MaxRequests
    /\ sched' = [sched EXCEPT !.tpc = "first_job", !.retry = 0, !.first = "<none>",
                              !.stops = 0]
    /\ UnchangedAutoML

\* one iteration of its loop
FirstExecutionPoll ==
    /\ sched.tpc = "first_job"
    /\ \E it \in {_predict_while_waiting_for_first_monitoring_job_to_complete(
                      describe_schedule(sched), sched.retry)} :
       \E sch \in {IF it.stop
                   THEN [stop_monitoring_schedule(sched) EXCEPT !.stops = @ + 1]
                   ELSE sched} :
          sched' = CASE it.next = "break" ->
                          [sch EXCEPT !.tpc = "idle", !.retry = 0, !.first = "ok"]
                     [] it.next = "retry" -> [sch EXCEPT !.retry = @ + 1]
                     [] OTHER ->
                          [sch EXCEPT !.tpc = "idle", !.retry = 0, !.first = "raised"]
    /\ UnchangedAutoML

\* the service starts an execution of the schedule
ExecutionStarts ==
    /\ sched.status = "Scheduled"
    /\ sched.exec \in {"<none>"} \cup TerminalExecution
    /\ sched' = [sched EXCEPT !.exec = "Pending"]
    /\ UnchangedAutoML

\* the service takes the execution one status further
ExecutionProceeds ==
    /\ \/ /\ sched.exec = "Pending"
          /\ sched' = [sched EXCEPT !.exec = "InProgress"]
       \/ /\ sched.exec = "InProgress"
          /\ \E status \in TerminalExecution : sched' = [sched EXCEPT !.exec = status]
    /\ UnchangedAutoML

NextMonitor ==
    \/ UpdateMonitoringSchedule
    \/ StopMonitoringSchedule
    \/ StartMonitoringSchedule
    \/ WaitForScheduleChanges
    \/ SchedulePoll
    \/ DescribeSchedule
    \/ WaitForFirstExecution
    \/ FirstExecutionPoll
    \/ RemotePropagate
    \/ ExecutionStarts
    \/ ExecutionProceeds

SpecMonitor == InitMonitor /\ [][NextMonitor]_vars

(***************************************************************************)
(* RealTimePredictor: the endpoint it was built for, the endpoint          *)
(* configurations and models behind it, and the response stream of an      *)
(* inference call.                                                         *)
(***************************************************************************)
MaxCalls == 3
MaxConfigs == 3

ConfigNames == <<"c0", "c1", "c2", "c3", "c4">>
ProductionVariants == {<<"m1">>, <<"m1", "m2", "m3">>}
SeqRange(q) == {q[i] : i \in DOMAIN q}

\* the endpoint as deployed: one configuration, its models
DeployedEndpoint(variants) ==
    [endpoint |-> TRUE, EndpointConfigName |-> ConfigNames[1], configs |-> {ConfigNames[1]},
     created |-> 1, variants |-> variants, models |-> SeqRange(variants)]

\* the build: setup.py supports Python 2.7 and Python 3.6
Builds == {"py2", "py3"}

SessionDeleteEndpointConfig(rem, name) ==
    IF name \in rem.configs THEN Ok([rem EXCEPT !.configs = @ \ {name}])
    ELSE Raise("ClientError")

SessionDeleteEndpoint(rem) ==
    IF rem.endpoint THEN Ok([rem EXCEPT !.endpoint = FALSE]) ELSE Raise("ClientError")

\* Session.delete_model(model_name); failing are the models whose delete the
\* service refuses at this call
SessionDeleteModel(rem, model_name, failing) ==
    IF model_name \in rem.models /\ model_name \notin failing
    THEN Ok([rem EXCEPT !.models = @ \ {model_name}])
    ELSE Raise("ClientError")

\* name_from_base(base): a name not used before
name_from_base(rem) == ConfigNames[rem.created + 1]

_get_endpoint_config_name(rem) == rem.EndpointConfigName

\* map(lambda d: d["ModelName"], production_variants): a list under Python 2, an
\* iterator that yields each name once under Python 3
_get_model_names(rem, build) ==
    [kind |-> IF build = "py3" THEN "map" ELSE "list", items |-> rem.variants]

RealTimePredictor(rem, build) ==
    [_endpoint_config_name |-> _get_endpoint_config_name(rem),
     _model_names |-> _get_model_names(rem, build)]

PredictorResult(self, rem, calls, res) == [self |-> self, rem |-> rem, calls |-> calls, res |-> res]

delete_endpoint(self, delete_endpoint_config, rem) ==
    LET config == IF delete_endpoint_config
                  THEN SessionDeleteEndpointConfig(rem, self._endpoint_config_name)
                  ELSE Ok(rem)
        calls == IF delete_endpoint_config
                 THEN <<Call("delete_endpoint_config", self._endpoint_config_name)>>
                 ELSE <<>>
    IN  IF config.outcome /= "ok" THEN PredictorResult(self, rem, calls, config)
        ELSE LET endpoint == SessionDeleteEndpoint(config.value)
                 all == Append(calls, Call("delete_endpoint", "endpoint"))
             IN  IF endpoint.outcome /= "ok"
                 THEN PredictorResult(self, config.value, all, endpoint)
                 ELSE PredictorResult(self, endpoint.value, all, Ok(PyNone))

\* the loop of delete_model over the names the iteration yields
RECURSIVE DeleteEach(_, _, _, _, _)
DeleteEach(names, rem, failing, failed_models, calls) ==
    IF names = <<>> THEN [rem |-> rem, failed_models |-> failed_models, calls |-> calls]
    ELSE LET model_name == Head(names)
             deleted == SessionDeleteModel(rem, model_name, failing)
         IN  DeleteEach(Tail(names),
                        IF deleted.outcome = "ok" THEN deleted.value ELSE rem,
                        failing,
                        IF deleted.outcome = "ok" THEN failed_models
                        ELSE Append(failed_models, model_name),
                        Append(calls, Call("delete_model", model_name)))

delete_model(self, rem, failing) ==
    LET loop == DeleteEach(self._model_names.items, rem, failing, <<>>, <<>>)
        after == IF self._model_names.kind = "map"
                 THEN [self EXCEPT !._model_names.items = <<>>]
                 ELSE self
    IN  PredictorResult(after, loop.rem, loop.calls,
                        IF loop.failed_models /= <<>>
                        THEN [outcome |-> "Exception", failed_models |-> loop.failed_models]
                        ELSE Ok(PyNone))

\* update_data_capture_config(data_capture_config); enable_data_capture and
\* disable_data_capture call it with a DataCaptureConfig
update_data_capture_config(self, rem) ==
    LET new_config_name == name_from_base(rem)
    IN  IF ~rem.endpoint
        THEN PredictorResult(self, rem, <<Call("describe_endpoint", "endpoint")>>,
                             Raise("ClientError"))
        ELSE PredictorResult(self,
                 [rem EXCEPT !.configs = @ \cup {new_config_name}, !.created = @ + 1,
                             !.EndpointConfigName = new_config_name],
                 <<Call("describe_endpoint", "endpoint"),
                   Call("create_endpoint_config_from_existing",
                        <<rem.EndpointConfigName, new_config_name>>),
                   Call("update_endpoint", new_config_name)>>,
                 Ok(PyNone))

\* the Body of an invoke_endpoint response: whether reading it and decoding
\* what was read succeed, and whether it has been closed
Streams == [reads : {"ok", "raises"}, decodes : {"ok", "raises"}, closed : {FALSE}]
ContentTypes == {"text/csv", "application/json", "application/x-npy", "text/plain"}
Deserializers == {"None", "_CsvDeserializer", "BytesDeserializer", "StringDeserializer", "StreamDeserializer", "_JsonDeserializer", "_NumpyDeserializer"}

StreamResult(res, stream) == [res |-> res, stream |-> stream]
Close(stream) == [stream EXCEPT !.closed = TRUE]

\* stream.read()
Read(stream) == IF stream.reads = "ok" THEN Ok("bytes") ELSE Raise("IOError")

\* stream.read() followed by the decoding of what was read
ReadAndDecode(stream) ==
    IF Read(stream).outcome /= "ok" THEN Read(stream)
    ELSE IF stream.decodes = "ok" THEN Ok("decoded")
    ELSE Raise("ValueError")

\* try: return ... finally: stream.close()
_CsvDeserializer(stream, content_type) == StreamResult(ReadAndDecode(stream), Close(stream))
BytesDeserializer(stream, content_type) == StreamResult(Read(stream), Close(stream))
StringDeserializer(stream, content_type) == StreamResult(ReadAndDecode(stream), Close(stream))
_JsonDeserializer(stream, content_type) == StreamResult(ReadAndDecode(stream), Close(stream))

\* return (stream, content_type)
StreamDeserializer(stream, content_type) == StreamResult(Ok(<<"stream", content_type>>), stream)

_NumpyDeserializer_closing_on_return(stream, content_type) ==
    IF content_type \in {"text/csv", "application/json", "application/x-npy"}
    THEN StreamResult(ReadAndDecode(stream), Close(stream))
    ELSE StreamResult(Raise("ValueError"), stream)

\* the three returns are inside the try, the raise of the ValueError after it
_NumpyDeserializer(stream, content_type) ==
    IF content_type \in {"text/csv", "application/json", "application/x-npy"}
    THEN StreamResult(ReadAndDecode(stream), Close(stream))
    ELSE StreamResult(Raise("ValueError"), Close(stream))

_handle_response(deserializer, stream, content_type) ==
    CASE deserializer = "_CsvDeserializer" -> _CsvDeserializer(stream, content_type)
      [] deserializer = "BytesDeserializer" -> BytesDeserializer(stream, content_type)
      [] deserializer = "StringDeserializer" -> StringDeserializer(stream, content_type)
      [] deserializer = "StreamDeserializer" -> StreamDeserializer(stream, content_type)
      [] deserializer = "_JsonDeserializer" -> _JsonDeserializer(stream, content_type)
      [] deserializer = "_NumpyDeserializer" -> _NumpyDeserializer(stream, content_type)
      [] OTHER -> IF Read(stream).outcome = "ok"
                  THEN StreamResult(Read(stream), Close(stream))
                  ELSE StreamResult(Read(stream), stream)

NoStream == [reads |-> "<none>", decodes |-> "<none>", closed |-> FALSE]

\* RealTimePredictor(endpoint) on a deployed endpoint
NewPredictor(build, variants) ==
    [build |-> build, rem |-> DeployedEndpoint(variants),
     self |-> RealTimePredictor(DeployedEndpoint(variants), build),
     op |-> "__init__", n |-> 0, calls |-> <<>>, res |-> Ok(PyNone),
     arg |-> <<>>, failing |-> {}, stream |-> NoStream]

InitPredictor ==
    /\ InitObject
    /\ bin = BIdle
    /\ bout = BNone
    /\ sched = NoSchedule
    /\ race = NoRace
    /\ pred \in {NewPredictor(build, variants) : build \in Builds, variants \in ProductionVariants}

\* what a completed call leaves behind
Called(op, arg, failing, r) ==
    [pred EXCEPT !.self = r.self, !.rem = r.rem, !.op = op, !.n = @ + 1, !.calls = r.calls,
                 !.res = r.res, !.arg = arg, !.failing = failing, !.stream = NoStream]

DeleteModel ==
    /\ pred.n < MaxCalls
    /\ \E failing \in SUBSET SeqRange(pred.rem.variants) :
          pred' = Called("delete_model", <<>>, failing,
                         delete_model(pred.self, pred.rem, failing))
    /\ UNCHANGED <<automl, remote, pc, waitCtx, lastOp, remoteChanged, handles, bin, bout, sched, race>>

DeleteEndpoint ==
    /\ pred.n < MaxCalls
    /\ \E delete_endpoint_config \in BOOLEAN :
          pred' = Called("delete_endpoint",
                         <<delete_endpoint_config>>, {},
                         delete_endpoint(pred.self, delete_endpoint_config, pred.rem))
    /\ UNCHANGED <<automl, remote, pc, waitCtx, lastOp, remoteChanged, handles, bin, bout, sched, race>>

\* update_data_capture_config, enable_data_capture, disable_data_capture
UpdateDataCaptureConfig ==
    /\ pred.n < MaxCalls
    /\ pred.rem.created < MaxConfigs
    /\ \E op \in {"update_data_capture_config", "enable_data_capture", "disable_data_capture"} :
          pred' = Called(op, <<>>, {}, update_data_capture_config(pred.self, pred.rem))
    /\ UNCHANGED <<automl, remote, pc, waitCtx, lastOp, remoteChanged, handles, bin, bout, sched, race>>

\* predict(data): invoke_endpoint, then _handle_response
Predict ==
    /\ pred.n < MaxCalls
    /\ pred.rem.endpoint
    /\ \E deserializer \in Deserializers, stream \in Streams, content_type \in ContentTypes :
       \E r \in {_handle_response(deserializer, stream, content_type)} :
          pred' = [pred EXCEPT !.op = "predict", !.n = @ + 1,
                               !.calls = <<Call("invoke_endpoint", "endpoint")>>,
                               !.res = r.res, !.arg = <<deserializer, content_type>>,
                               !.failing = {}, !.stream = r.stream]
    /\ UNCHANGED <<automl, remote, pc, waitCtx, lastOp, remoteChanged, handles, bin, bout, sched, race>>

NextPredictor ==
    \/ DeleteModel
    \/ DeleteEndpoint
    \/ UpdateDataCaptureConfig
    \/ Predict

SpecPredictor == InitPredictor /\ [][NextPredictor]_vars

(***************************************************************************)
(* Two threads call best_candidate on one AutoML object, one for job "A",  *)
(* one for job "B"; each read and each write of an attribute of the object *)
(* is a step of its own, and the steps of the two threads interleave.      *)
(***************************************************************************)
\* the object after fit(job_name="A") and fit(job_name="B"), both without wait
SubmittedJobs ==
    fit(SubmittedJob.self, PyStr(<<"s3://", "a">>), FALSE, FALSE, "B", "B", SubmittedJob.rem)

\* the remote once both jobs have completed and have a best candidate
FinishedJobs == [j \in JobNames |-> [AutoMLJobStatus |-> "Completed", hasBest |-> TRUE]]

\* the object the threads share: as the fits left it, or after a
\* describe_auto_ml_job that cached the description of one of the jobs
SharedObjects ==
    {SubmittedJobs.self} \cup
    {describe_auto_ml_job(SubmittedJobs.self, j, FinishedJobs).self : j \in JobNames}

Thread(job_name) ==
    [pc |-> "call", job_name |-> job_name, desc |-> PyNone, cand |-> PyNone,
     outcome |-> "<none>", ret |-> PyNone, wrote |-> FALSE]

\* elif self._auto_ml_job_desc["AutoMLJobName"] != job_name
DescriptionOfAnotherJob_ignored(desc, job_name) == FALSE

DescriptionOfAnotherJob(desc, job_name) == desc.AutoMLJobName /= job_name

\* the next read or write a thread inside best_candidate makes
best_candidate_step(self, th, rem) ==
    CASE th.pc = "call" ->
           [self |-> self,
            th |-> [th EXCEPT !.pc = IF Truthy(self._best_candidate) THEN "return_cached"
                                     ELSE "is_none"]]
      [] th.pc = "return_cached" ->
           [self |-> self,
            th |-> [th EXCEPT !.pc = "done", !.outcome = "ok", !.ret = self._best_candidate]]
      [] th.pc = "is_none" ->
           [self |-> self,
            th |-> [th EXCEPT !.pc = IF self._auto_ml_job_desc = PyNone THEN "fetch"
                                     ELSE "name_differs"]]
      [] th.pc = "name_differs" ->
           [self |-> self,
            th |-> [th EXCEPT !.pc = IF DescriptionOfAnotherJob(self._auto_ml_job_desc,
                                                                th.job_name)
                                     THEN "fetch" ELSE "lookup"]]
      [] th.pc = "fetch" ->
           [self |-> self,
            th |-> IF SessionDescribe(rem, th.job_name).outcome /= "ok"
                   THEN [th EXCEPT !.pc = "done",
                                   !.outcome = SessionDescribe(rem, th.job_name).outcome]
                   ELSE [th EXCEPT !.pc = "store_desc",
                                   !.desc = SessionDescribe(rem, th.job_name).value]]
      [] th.pc = "store_desc" ->
           [self |-> [self EXCEPT !._auto_ml_job_desc = th.desc],
            th |-> [th EXCEPT !.pc = "lookup", !.wrote = TRUE]]
      [] th.pc = "lookup" ->
           [self |-> self,
            th |-> IF "BestCandidate" \notin DOMAIN self._auto_ml_job_desc
                   THEN [th EXCEPT !.pc = "done", !.outcome = "KeyError"]
                   ELSE [th EXCEPT !.pc = "store_best",
                                   !.cand = self._auto_ml_job_desc.BestCandidate]]
      [] th.pc = "store_best" ->
           [self |-> [self EXCEPT !._best_candidate = th.cand],
            th |-> [th EXCEPT !.pc = "return", !.wrote = TRUE]]
      [] OTHER ->
           [self |-> self,
            th |-> [th EXCEPT !.pc = "done", !.outcome = "ok", !.ret = self._best_candidate]]

InitRace ==
    /\ automl \in SharedObjects
    /\ remote = FinishedJobs
    /\ pc = "idle"
    /\ waitCtx = NoWait
    /\ lastOp = NoOp
    /\ remoteChanged = FALSE
    /\ handles = JobNames
    /\ bin = BIdle
    /\ bout = BNone
    /\ sched = NoSchedule
    /\ pred = NoPredictor
    /\ race = <<Thread("A"), Thread("B")>>

ThreadStep(i) ==
    /\ race[i].pc /= "done"
    /\ \E r \in {best_candidate_step(automl, race[i], remote)} :
          /\ automl' = r.self
          /\ race' = [race EXCEPT ![i] = r.th]
    /\ UNCHANGED <<remote, pc, waitCtx, lastOp, remoteChanged, handles, bin, bout, sched, pred>>

NextRace == \E i \in {1, 2} : ThreadStep(i)

SpecRace == InitRace /\ [][NextRace]_vars

(***************************************************************************)
(* Properties.                                                             *)
(***************************************************************************)
DescribeOps == {"describe", "describe_auto_ml_job"}
WaitCalls == {"logs_for_auto_ml_job", "wait_for_auto_ml_job"}

\* the call went through AutoMLJob.wait
Waited(op) == \E i \in DOMAIN op.calls : op.calls[i].fn \in WaitCalls

\* a step in which the idle caller makes a call that completes at once
\* (a step of the remote service sets remoteChanged)
CallStep == pc = "idle" /\ pc' = "idle" /\ ~remoteChanged'

\* C1: AutoMLJob.wait, called directly or by fit(wait=True), returns only when
\* the status the session fetched is terminal; it never returns at Pending or
\* InProgress.
WaitReturnsOnlyWhenTerminal ==
    Waited(lastOp) => lastOp.status \in Terminal

WaitReturnedWitness ==
    /\ lastOp.op = "fit"
    /\ Waited(lastOp)
    /\ lastOp.status = "Failed"

\* C2: every AutoMLJob.describe and AutoML.describe_auto_ml_job issues exactly
\* one remote describe for its job and returns what the remote holds, whatever
\* is cached; describe_auto_ml_job leaves the fetched description in the cache.
DescribeAlwaysFetches ==
    lastOp.op \in DescribeOps =>
        /\ lastOp.calls = <<Call("describe_auto_ml_job", lastOp.job)>>
        /\ (lastOp.outcome = "ok" /\ ~remoteChanged) =>
               lastOp.ret = SessionDescribe(remote, lastOp.job).value
        /\ (lastOp.outcome = "ok" /\ ~remoteChanged
                /\ lastOp.op = "describe_auto_ml_job") =>
               automl._auto_ml_job_desc = lastOp.ret

DescribeWithCacheWitness ==
    /\ lastOp.op = "describe_auto_ml_job"
    /\ lastOp.rep
    /\ lastOp.outcome = "ok"
    /\ ~remoteChanged
    /\ "BestCandidate" \in DOMAIN lastOp.ret

\* C3: a describe that follows the same describe, with no step of the remote
\* in between, has the same outcome and returns the same description, and it
\* changes neither the remote nor the job name the next describe resolves to.
DescribeIdempotent ==
    [][(/\ CallStep
        /\ ~remoteChanged
        /\ lastOp.op \in DescribeOps
        /\ lastOp'.op = lastOp.op
        /\ lastOp'.req = lastOp.req)
       => (/\ lastOp'.outcome = lastOp.outcome
           /\ lastOp'.ret = lastOp.ret
           /\ remote' = remote
           /\ automl'.current_job_name = automl.current_job_name)]_vars

DescribeTwiceWitness ==
    /\ lastOp.op \in DescribeOps
    /\ lastOp.rep
    /\ lastOp.outcome = "ok"
    /\ ~remoteChanged
    /\ lastOp.ret = SessionDescribe(remote, lastOp.job).value

\* C4: after best_candidate(job_name=A) has returned, best_candidate(job_name=B)
\* with B different from A issues a remote describe for B and returns the
\* BestCandidate of B.
BestCandidateRefetchesForOtherJob ==
    [][(/\ CallStep
        /\ lastOp.op = "best_candidate"
        /\ lastOp.outcome = "ok"
        /\ lastOp.req \in JobNames
        /\ lastOp'.op = "best_candidate"
        /\ lastOp'.req \in JobNames
        /\ lastOp'.req /= lastOp.req)
       => (/\ lastOp'.calls = <<Call("describe_auto_ml_job", lastOp'.req)>>
           /\ lastOp'.outcome = "ok" => lastOp'.ret = Cand(lastOp'.req))]_vars

BestCandidateOfCurrentJob ==
    (/\ lastOp.op = "best_candidate"
     /\ lastOp.req = NoName
     /\ lastOp.outcome = "ok")
    => lastOp.ret = Cand(automl.current_job_name)

\* C7: a best_candidate call that finds no BestCandidate key in the description
\* it uses fails with a "not yet available" error, not with the KeyError of the
\* lookup.
MissingBestCandidateIsNotYetAvailable ==
    (/\ lastOp.op = "best_candidate"
     /\ ~Truthy(automl._best_candidate)
     /\ automl._auto_ml_job_desc /= PyNone
     /\ "BestCandidate" \notin DOMAIN automl._auto_ml_job_desc
     /\ lastOp.outcome /= "ClientError")
    => lastOp.outcome = "NotYetAvailable"

\* C8: best_candidate returns a candidate only for a job whose last fetched
\* status is Completed or CompletedWithViolations.
BestCandidateOnlyWhenResultsAvailable ==
    (/\ lastOp.op = "best_candidate"
     /\ lastOp.outcome = "ok"
     /\ automl._auto_ml_job_desc /= PyNone
     /\ automl._auto_ml_job_desc.AutoMLJobName = lastOp.job)
    => automl._auto_ml_job_desc.AutoMLJobStatus \in ResultsAvailable

\* an argument was given by the caller (it is not None)
Supplied(v) == v /= PyNone

\* C9: constructing an AutoML object raises ValueError exactly when one of
\* problem_type and job_objective is supplied and the other is not.
ConstructionValidatesPair ==
    bout.op = "__init__" =>
        (bout.res.outcome = "ValueError"
            <=> (Supplied(bin.problem_type) /= Supplied(bin.job_objective)))

\* C10: for a single location string s, the input config built from s is the
\* one built from the list [s] (the same error when building fails), and it
\* has exactly one entry; for _format_inputs_to_input_config and for
\* AutoMLInput.to_request_dict.
SingleLocationIsOneElementList ==
    bin.inputs.tag = "str" =>
        /\ bout.op = "_format_inputs_to_input_config" =>
              /\ bout.res = _format_inputs_to_input_config(
                                PyList(<<bin.inputs>>), TRUE, bin.compression,
                                bin.target_attribute_name)
              /\ bout.res.outcome = "ok" => Len(bout.res.value) = 1
        /\ bout.op = "to_request_dict" =>
              /\ bout.res = to_request_dict(
                                AutoMLInput(PyList(<<bin.inputs>>),
                                            bin.target_attribute_name, bin.compression))
              /\ bout.res.outcome = "ok"
              /\ Len(bout.res.value) = 1

SingleLocationWitness ==
    /\ bout.op = "_format_inputs_to_input_config"
    /\ bin.inputs.tag = "str"
    /\ Len(bin.inputs.val) = 2
    /\ bin.compression /= PyNone
    /\ bout.res.outcome = "ok"
    /\ Len(bout.res.value) = 1

StopConditionKeys ==
    {"MaxCandidates", "MaxRuntimePerTrainingJobInSeconds", "MaxAutoMLJobRuntimeInSeconds"}

\* C11: the stopping condition always holds MaxCandidates with the given value,
\* holds MaxRuntimePerTrainingJobInSeconds iff a per-training-job runtime was
\* given (is not None) and MaxAutoMLJobRuntimeInSeconds iff a total runtime
\* was given, each with the given value, and holds no other key; 500 with no
\* runtime gives exactly {MaxCandidates: 500}.
StopConditionHasExactlyTheGivenLimits ==
    bout.op = "_prepare_auto_ml_stop_condition" =>
        LET d == bout.res.value
            per == bin.max_runtime_per_training_job_in_seconds
            total == bin.total_job_runtime_in_seconds
        IN /\ DOMAIN d \subseteq StopConditionKeys
           /\ "MaxCandidates" \in DOMAIN d
           /\ d["MaxCandidates"] = bin.max_candidates
           /\ ("MaxRuntimePerTrainingJobInSeconds" \in DOMAIN d) <=> (per /= PyNone)
           /\ per /= PyNone => d["MaxRuntimePerTrainingJobInSeconds"] = per
           /\ ("MaxAutoMLJobRuntimeInSeconds" \in DOMAIN d) <=> (total /= PyNone)
           /\ total /= PyNone => d["MaxAutoMLJobRuntimeInSeconds"] = total
           /\ (bin.max_candidates = PyInt(500) /\ per = PyNone /\ total = PyNone)
                  => d = [k \in {"MaxCandidates"} |-> PyInt(500)]

StopConditionWitness ==
    /\ bout.op = "_prepare_auto_ml_stop_condition"
    /\ bin.max_runtime_per_training_job_in_seconds = PyInt(600)
    /\ bin.total_job_runtime_in_seconds = PyInt(3600)
    /\ DOMAIN bout.res.value = StopConditionKeys
    /\ bout.res.value["MaxRuntimePerTrainingJobInSeconds"] = PyInt(600)
    /\ bout.res.value["MaxAutoMLJobRuntimeInSeconds"] = PyInt(3600)

NetworkCalls == {"upload_data", "default_bucket", "auto_ml"}
Issued(calls, fns) == \E i \in DOMAIN calls : calls[i].fn \in fns

\* C12: for every input form, a target attribute name that is None or the
\* empty string makes fit fail with a validation error, and no create call is
\* sent.
MissingTargetNameIsRejected ==
    (/\ bout.op = "fit"
     /\ bin.inputs.tag \in {"str", "list"}
     /\ bin.target_attribute_name \in {PyNone, PyStr(<<>>)}) =>
        /\ bout.res.outcome = "ValueError"
        /\ ~Issued(bout.res.calls, {"auto_ml"})

\* C14: a fit that ends in a validation error has issued no upload_data, no
\* default_bucket and no create call.
ValidationErrorBeforeAnyNetworkCall ==
    (bout.op = "fit" /\ bout.res.outcome = "ValueError") =>
        ~Issued(bout.res.calls, NetworkCalls)

\* C15: fit(logs=True, wait=False) raises ValueError and changes nothing: no
\* call is issued to the session or the remote, and the object (with its
\* current_job_name, output_path and latest_auto_ml_job) is as it was.
FitLogsWithoutWaitChangesNothing ==
    (bout.op = "fit" /\ bin.logs /\ ~bin.wait) =>
        /\ bout.res.outcome = "ValueError"
        /\ bout.res.calls = <<>>
        /\ bout.res.self = FitObject
        /\ bout.res.rem = remote

FitLogsWithoutWaitWitness ==
    /\ bout.op = "fit"
    /\ bin.logs /\ ~bin.wait
    /\ bin.inputs = PyStr(<<"a">>) /\ bin.form = "plain"
    /\ bin.output_path = PyNone
    /\ bin.current_job_name = "B"
    /\ bout.res.outcome = "ValueError"
    /\ bout.res.self.current_job_name = "B"

\* C13: a default is applied, or a field omitted, only for a parameter that is
\* None; an explicit falsy value is neither replaced nor dropped: the runtime
\* limits, output_path, base_job_name, volume_kms_key, vpc_config and the
\* filters of list_candidates.
ExplicitFalsyValueIsKept ==
    /\ bout.op = "_prepare_auto_ml_stop_condition" =>
          /\ bin.max_runtime_per_training_job_in_seconds /= PyNone
                => "MaxRuntimePerTrainingJobInSeconds" \in DOMAIN bout.res.value
          /\ bin.total_job_runtime_in_seconds /= PyNone
                => "MaxAutoMLJobRuntimeInSeconds" \in DOMAIN bout.res.value
    /\ (bout.op = "fit" /\ ~(bin.logs /\ ~bin.wait) /\ bin.output_path /= PyNone)
          => bout.res.self.output_path = bin.output_path
    /\ (bout.op = "base_name" /\ bin.base_job_name /= PyNone)
          => bout.res.value = bin.base_job_name
    /\ bout.op = "SecurityConfig" =>
          /\ bin.volume_kms_key /= PyNone
                => /\ "VolumeKmsKeyId" \in DOMAIN bout.res.value
                   /\ bout.res.value["VolumeKmsKeyId"] = bin.volume_kms_key
          /\ bin.vpc_config /= PyNone
                => /\ "VpcConfig" \in DOMAIN bout.res.value
                   /\ bout.res.value["VpcConfig"] = bin.vpc_config
    /\ bout.op = "list_candidates" =>
          \A f \in Filters :
              bin[f] /= PyNone => /\ f \in DOMAIN bout.res.value
                                  /\ bout.res.value[f] = bin[f]

StopRequested(j) ==
    remote[j].AutoMLJobStatus = "InProgress" /\ remote'[j].AutoMLJobStatus = "Stopping"

\* C19: a stop request that arrives while a wait on the job is in progress
\* leaves the wait in progress; a wait returns only in a poll that observes a
\* terminal status, so for as long as the job is not terminal the wait goes on.
StopDoesNotEndWait ==
    [][pc = "waiting" =>
          /\ StopRequested(waitCtx.call.job) => (pc' = "waiting" /\ waitCtx' = waitCtx)
          /\ pc' = "idle" =>
                /\ remote[waitCtx.call.job].AutoMLJobStatus \in Terminal
                /\ remote' = remote
                /\ lastOp'.status = remote[waitCtx.call.job].AutoMLJobStatus
          /\ remote[waitCtx.call.job].AutoMLJobStatus \notin Terminal
                => pc' = "waiting"]_vars

StopRequestedDuringWaitWitness ==
    /\ pc = "waiting"
    /\ remote[waitCtx.call.job].AutoMLJobStatus = "Stopping"

CreateCalls(calls) == {i \in DOMAIN calls : calls[i].fn = "auto_ml"}

\* C17: after a successful submission the handle exists, waiting or not: while
\* fit(wait=True) is waiting and after any successful fit, latest_auto_ml_job
\* is the handle of the submitted job and exactly one create call was issued;
\* a fit(wait=False) has issued no wait or log call, and right after it the
\* handle can be described at once, the job still running.
HandleExistsAfterSubmission ==
    /\ (pc = "waiting" /\ waitCtx.op = "fit") =>
          /\ automl.latest_auto_ml_job = waitCtx.call.job
          /\ automl.latest_auto_ml_job \in handles \cap JobNames
          /\ Cardinality(CreateCalls(waitCtx.calls)) = 1
          /\ ~Issued(waitCtx.calls, WaitCalls)
    /\ (lastOp.op = "fit" /\ lastOp.outcome = "ok") =>
          /\ automl.latest_auto_ml_job = lastOp.job
          /\ automl.latest_auto_ml_job \in handles \cap JobNames
          /\ Cardinality(CreateCalls(lastOp.calls)) = 1
          /\ lastOp.calls[Len(lastOp.calls)].fn \in WaitCalls \cup {"auto_ml"}
          /\ (lastOp.status = NoStatus) <=> ~Waited(lastOp)
    /\ (lastOp.op = "fit" /\ lastOp.outcome = "ok" /\ ~Waited(lastOp) /\ ~remoteChanged) =>
          /\ pc = "idle"
          /\ describe(lastOp.job, remote).outcome = "ok"
          /\ describe(lastOp.job, remote).value.AutoMLJobStatus \in NonTerminal

FitWithoutWaitWitness ==
    /\ lastOp.op = "fit" /\ lastOp.outcome = "ok" /\ ~Waited(lastOp)
    /\ ~remoteChanged
    /\ automl.latest_auto_ml_job = lastOp.job
    /\ remote[lastOp.job].AutoMLJobStatus = "InProgress"

ObserveOps == {"describe", "describe_auto_ml_job", "wait", "best_candidate", "list_candidates"}
ReadCalls ==
    {"describe_auto_ml_job", "list_candidates", "logs_for_auto_ml_job",
     "wait_for_auto_ml_job"}

\* an observing call completes in this step, or a wait on a handle begins
ObserveStep ==
    \/ pc' = "idle" /\ ~remoteChanged' /\ lastOp'.op \in ObserveOps
    \/ pc = "idle" /\ pc' = "waiting" /\ waitCtx'.op = "wait"

\* C20: describe, describe_auto_ml_job, wait, best_candidate and
\* list_candidates leave the remote as it is, issue only describe, list and
\* log/wait read calls, and change nothing of the object but the cached
\* description and the cached best candidate.
ObservingChangesNothing ==
    [][ObserveStep =>
          /\ remote' = remote
          /\ handles' = handles
          /\ \A i \in DOMAIN lastOp'.calls : lastOp'.calls[i].fn \in ReadCalls
          /\ automl' = [automl EXCEPT !._auto_ml_job_desc = automl'._auto_ml_job_desc,
                                      !._best_candidate = automl'._best_candidate]]_vars

ListCandidatesWitness ==
    /\ lastOp.op = "list_candidates"
    /\ lastOp.outcome = "ok"
    /\ ~remoteChanged
    /\ lastOp.ret = PyList(<<Cand(lastOp.job)>>)
    /\ automl._best_candidate = PyNone

LastRequest == sched.reqs[Len(sched.reqs)]
Requested(req) == sched'.reqs = Append(sched.reqs, req)
ChangeApplied == sched.waited = "ok" \/ sched.seen \notin {"<none>", "Pending"}

\* C18: a stop (a start) request returns with the schedule Pending and the
\* caller not blocked; once the polling loop has ended because the status has
\* left Pending, or a describe_schedule shows a status other than Pending, the
\* status is Stopped after a stop and Scheduled after a start.
ScheduleChangeIsSeenByPolling ==
    /\ [][(Requested("stop") \/ Requested("start")) =>
              (sched'.status = "Pending" /\ sched'.tpc = "idle")]_vars
    /\ []((Len(sched.reqs) > 0 /\ ChangeApplied /\ LastRequest = "stop") =>
              (sched.status = "Stopped" /\ sched.seen \in {"<none>", "Stopped"}))
    /\ []((Len(sched.reqs) > 0 /\ ChangeApplied /\ LastRequest = "start") =>
              (sched.status = "Scheduled" /\ sched.seen \in {"<none>", "Scheduled"}))

StoppedThenStartedWitness ==
    /\ sched.reqs = <<"create", "stop", "start">>
    /\ sched.waited = "ok"
    /\ sched.seen = "Scheduled"

\* C21: the loop that waits for the first execution calls
\* stop_monitoring_schedule only when the description has a last execution
\* summary and the schedule is neither Pending nor Stopped, ends normally only
\* when the last execution status is terminal, and otherwise ends only at its
\* retry limit
FirstExecutionLoopReadsTheSummary ==
    /\ [][(sched.tpc = "first_job" /\ Requested("stop")) =>
              (sched.exec /= "<none>" /\ sched.status \notin {"Pending", "Stopped"})]_vars
    /\ [][(sched.tpc = "first_job" /\ sched'.tpc = "idle" /\ sched'.first = "ok") =>
              sched.exec \in TerminalExecution]_vars
    /\ [][(sched.tpc = "first_job" /\ sched'.tpc = "idle" /\ sched'.first = "raised") =>
              (sched.exec \notin TerminalExecution /\ sched.retry + 1 = MaxRetryCount)]_vars

FirstExecutionLoopStoppedWitness ==
    /\ sched.tpc = "idle"
    /\ sched.first = "ok"
    /\ sched.stops = 1
    /\ sched.status = "Stopped"
    /\ sched.exec = "CompletedWithViolations"

PredictorCalled(op) == pred'.op = op /\ pred'.n = pred.n + 1
DeleteAttempts(calls) == {c.arg : c \in {d \in SeqRange(calls) : d.fn = "delete_model"}}
\* the models whose delete the service refused in this step
DeletesRaised == {m \in DeleteAttempts(pred'.calls) : m \in pred'.failing \/ m \notin pred.rem.models}

\* C23: every delete_model call attempts the delete of each model of the
\* predictor that still exists, raises exactly when a delete raised, names
\* exactly the models whose delete raised, and deletes the others
DeleteModelAttemptsEveryModel ==
    [][PredictorCalled("delete_model") =>
          /\ (SeqRange(pred.rem.variants) \cap pred.rem.models) \subseteq DeleteAttempts(pred'.calls)
          /\ DeleteAttempts(pred'.calls) \subseteq SeqRange(pred.rem.variants)
          /\ (pred'.res.outcome /= "ok") <=> (DeletesRaised /= {})
          /\ pred'.res.outcome /= "ok" =>
                /\ SeqRange(pred'.res.failed_models) = DeletesRaised
                /\ Len(pred'.res.failed_models) = Cardinality(DeletesRaised)
          /\ pred'.rem.models = pred.rem.models \ (SeqRange(pred.rem.variants) \ pred'.failing)]_vars

\* C24: a delete_model call made after delete_model raised issues delete
\* calls again, and does not return normally while models of the predictor
\* remain
FailedDeleteModelCanBeRetried ==
    [][(pred.op = "delete_model" /\ pred.res.outcome /= "ok" /\ PredictorCalled("delete_model")) =>
          /\ pred'.calls /= <<>>
          /\ pred'.res.outcome = "ok" => pred'.rem.models \cap SeqRange(pred.rem.variants) = {}]_vars

\* C25: delete_endpoint(delete_endpoint_config=True) passes to
\* delete_endpoint_config the name of the configuration the endpoint uses at
\* the time of the call; with False no configuration is deleted
DeleteEndpointDeletesAttachedConfig ==
    [][PredictorCalled("delete_endpoint") =>
          /\ pred'.arg = <<TRUE>> =>
                pred'.calls[1] = Call("delete_endpoint_config", pred.rem.EndpointConfigName)
          /\ pred'.arg = <<FALSE>> =>
                /\ \A i \in DOMAIN pred'.calls : pred'.calls[i].fn /= "delete_endpoint_config"
                /\ pred'.rem.configs = pred.rem.configs]_vars

\* C29: after predict the response stream is closed when a deserializer other
\* than StreamDeserializer returned or raised and when the predictor itself
\* read the stream; StreamDeserializer returns the stream, open, with the
\* content type
ResponseStreamIsClosed ==
    pred.op = "predict" =>
        /\ pred.arg[1] \notin {"None", "StreamDeserializer"} => pred.stream.closed
        /\ (pred.arg[1] = "None" /\ pred.res.outcome = "ok") => pred.stream.closed
        /\ pred.arg[1] = "StreamDeserializer" =>
              /\ ~pred.stream.closed
              /\ pred.res = Ok(<<"stream", pred.arg[2]>>)

NumpyUnsupportedContentTypeWitness ==
    /\ pred.op = "predict"
    /\ pred.arg = <<"_NumpyDeserializer", "text/plain">>
    /\ pred.res.outcome = "ValueError"
    /\ pred.stream.closed

\* C26: the handle start_new returns carries the job name sent in the create
\* call; a handle the caller holds keeps its name, also when the AutoML object
\* runs later fits; every describe and wait made through a handle uses the
\* handle's name
JobHandleKeepsItsName ==
    /\ [][handles \subseteq handles']_vars
    /\ [](handles \subseteq JobNames)
    /\ []((pc = "waiting" /\ waitCtx.op = "fit") =>
             /\ \A i \in CreateCalls(waitCtx.calls) :
                   waitCtx.calls[i].arg = automl.latest_auto_ml_job
             /\ waitCtx.call.job = automl.latest_auto_ml_job)
    /\ []((pc = "waiting" /\ waitCtx.op = "wait") =>
             (waitCtx.call.job = waitCtx.req /\ waitCtx.req \in handles))
    /\ []((lastOp.op = "fit" /\ lastOp.outcome = "ok") =>
             \A i \in DOMAIN lastOp.calls :
                lastOp.calls[i].fn \in WaitCalls \cup {"auto_ml"} =>
                   lastOp.calls[i].arg = automl.latest_auto_ml_job)
    /\ []((lastOp.op \in {"describe", "wait"}) =>
             /\ lastOp.req \in handles
             /\ lastOp.calls /= <<>>
             /\ \A i \in DOMAIN lastOp.calls : lastOp.calls[i].arg = lastOp.req)

EarlierHandleDescribedWitness ==
    /\ handles = {"A", "B"}
    /\ automl.latest_auto_ml_job = "B"
    /\ lastOp.op = "describe"
    /\ lastOp.req = "A"
    /\ lastOp.outcome = "ok"
    /\ lastOp.calls = <<Call("describe_auto_ml_job", "A")>>

\* C27: a wait makes exactly one blocking session call for the handle's job
\* name: logs_for_auto_ml_job with wait=True when logs is true, otherwise
\* wait_for_auto_ml_job; the call it returns from is that one, and the status
\* it returned at is terminal
WaitDispatchesToOneBlockingCall ==
    /\ [](pc = "waiting" =>
             /\ waitCtx.call.job \in handles
             /\ waitCtx.call.wait
             /\ waitCtx.call.fn = IF waitCtx.logs THEN "logs_for_auto_ml_job"
                                  ELSE "wait_for_auto_ml_job")
    /\ [][(pc = "waiting" /\ pc' = "idle") =>
             /\ lastOp'.calls = Append(waitCtx.calls, Call(waitCtx.call.fn, waitCtx.call.job))
             /\ Cardinality({i \in DOMAIN lastOp'.calls : lastOp'.calls[i].fn \in WaitCalls}) = 1
             /\ lastOp'.status \in Terminal]_vars

WaitWithLogsReturnedWitness ==
    /\ lastOp.op = "wait"
    /\ lastOp.calls = <<Call("logs_for_auto_ml_job", "A")>>
    /\ lastOp.status = "Stopped"

\* C30: a best_candidate call that follows a failed best_candidate call for
\* the same job name, made when the remote description of the job has a
\* BestCandidate, returns that candidate
FailedBestCandidateIsRetried ==
    [][(/\ CallStep
        /\ lastOp.op = "best_candidate"
        /\ lastOp.outcome = "KeyError"
        /\ lastOp'.op = "best_candidate"
        /\ lastOp'.job = lastOp.job
        /\ SessionDescribe(remote, lastOp.job).outcome = "ok"
        /\ "BestCandidate" \in DOMAIN SessionDescribe(remote, lastOp.job).value) =>
          /\ lastOp'.outcome = "ok"
          /\ lastOp'.ret = Cand(lastOp.job)]_vars

\* C28: with two best_candidate calls interleaving on one object, a caller is
\* given a best candidate of one of the two jobs, and it is given the one of
\* the other caller's job only after the other caller has written the cached
\* description or the cached candidate; the caller for "A" can so return the
\* best candidate of "B"
InterleavedCallerGetsOtherJobsCandidate ==
    \A i \in {1, 2} :
       (race[i].pc = "done" /\ race[i].outcome = "ok") =>
          /\ race[i].ret \in {Cand(j) : j \in JobNames}
          /\ race[i].ret /= Cand(race[i].job_name) => race[3 - i].wrote

CallerOfAGetsCandidateOfBWitness ==
    /\ race[1].pc = "done"
    /\ race[1].job_name = "A"
    /\ race[1].outcome = "ok"
    /\ race[1].wrote
    /\ race[1].ret = Cand("B")

====
